---------------------------- MODULE Spec2Model ----------------------------
(***************************************************************************)
(* A model of src/project.rs of fumosync: init, pull_project and           *)
(* push_project acting on a file system and on the remote editor.          *)
(*                                                                         *)
(* Text (a Rust String or a path) is a sequence of tokens.  A token is a   *)
(* run of characters holding neither "/" nor "." nor a JSON delimiter; the *)
(* characters "/", ".", the quote and the backslash are tokens of their    *)
(* own, so that splitting a path at "/" or a file name at "." and escaping *)
(* a JSON string are exact on this representation.                         *)
(***************************************************************************)
EXTENDS Naturals, Sequences, FiniteSets, TLC

(***************************************************************************)
(* Bounds of the model.                                                    *)
(***************************************************************************)
\* longest module name (in tokens) the remote editor returns
MaxNameLen == 1
\* most modules in one remote snapshot
MaxModules == 2
\* most invocations of init / pull_project / push_project in one behaviour
MaxCalls == 2
\* most edits the user makes to the local files in one behaviour
MaxEdits == 1

(***************************************************************************)
(* Tokens with a meaning for paths and for JSON.                           *)
(***************************************************************************)
SLASH == "/"
DOT == "."
QUOTE == "\""
BACKSLASH == "\\"
\* white space as serde_json's pretty printer lays it out
WS == " "

Some(x) == <<x>>
None == <<>>

(***************************************************************************)
(* std::path as project.rs uses it.                                        *)
(***************************************************************************)
IsAbsolute(path) == Len(path) > 0 /\ path[1] = SLASH

\* Path::join: an absolute argument replaces the base
Join(base, path) ==
  IF IsAbsolute(path) \/ base = <<>> THEN path
  ELSE IF base[Len(base)] = SLASH THEN base \o path
  ELSE base \o <<SLASH>> \o path

RECURSIVE SplitFrom(_, _, _)
SplitFrom(path, i, cur) ==
  IF i > Len(path)
  THEN (IF cur = <<>> THEN <<>> ELSE <<cur>>)
  ELSE IF path[i] = SLASH
       THEN (IF cur = <<>> THEN <<>> ELSE <<cur>>) \o SplitFrom(path, i + 1, <<>>)
       ELSE SplitFrom(path, i + 1, Append(cur, path[i]))

\* the components of a path between its separators (empty ones dropped)
Components(path) == SplitFrom(path, 1, <<>>)

CurDir == <<DOT>>
ParentDir == <<DOT, DOT>>

\* Path::components drops "." except at the start of a relative path
RustComponents(path) ==
  LET cs == Components(path)
  IN  SelectSeq(cs, LAMBDA c : c # CurDir)

\* Path::file_name: the last component, unless it is ".." (or there is none)
FileName(path) ==
  LET cs == RustComponents(path)
  IN  IF cs = <<>> \/ cs[Len(cs)] = ParentDir THEN None ELSE Some(cs[Len(cs)])

\* the position of the last "." of a file name, 0 if it has none
LastDot(file) ==
  LET dots == {i \in 1..Len(file) : file[i] = DOT}
  IN  IF dots = {} THEN 0 ELSE CHOOSE i \in dots : \A j \in dots : j <= i

\* Path::extension of a file name: the part after the last ".", none when the
\* name has no "." or only a leading one
Extension(file) ==
  LET i == LastDot(file)
  IN  IF file = ParentDir \/ i <= 1 THEN None
      ELSE Some(SubSeq(file, i + 1, Len(file)))

\* Path::file_stem of a file name
FileStem(file) ==
  LET i == LastDot(file)
  IN  IF file = ParentDir \/ i <= 1 THEN file ELSE SubSeq(file, 1, i - 1)

\* PathBuf::from(file_name).with_extension("")
WithoutExtension(file) == FileStem(file)

Luau == <<"luau">>

\* format!("{name}.luau")
ModuleFile(name) == name \o <<DOT>> \o Luau

\* Option::unwrap_or
UnwrapOr(opt, default) == IF opt = None THEN default ELSE opt[1]

(***************************************************************************)
(* The file system.  fs maps the absolute, resolved path of every existing *)
(* node (a sequence of components from the root) to the node.              *)
(***************************************************************************)
Dir == [kind |-> "dir", content |-> <<>>]
File(content) == [kind |-> "file", content |-> content]

Root == <<>>
\* the directory init and pull_project are started in
Home == << <<"home">> >>

Exists(f, node) == node \in DOMAIN f
IsDir(f, node) == node \in DOMAIN f /\ f[node].kind = "dir"
IsFile(f, node) == node \in DOMAIN f /\ f[node].kind = "file"
Parent(node) == IF node = Root THEN Root ELSE SubSeq(node, 1, Len(node) - 1)

RECURSIVE Walk(_, _, _)
\* the kernel's path walk from directory cur: every component but the last
\* must lead to an existing directory; the node reached need not exist
Walk(f, cur, comps) ==
  IF comps = <<>> THEN Some(cur)
  ELSE IF ~IsDir(f, cur) THEN None
  ELSE LET c == Head(comps)
           nxt == IF c = CurDir THEN cur
                  ELSE IF c = ParentDir THEN Parent(cur)
                  ELSE Append(cur, c)
       IN  Walk(f, nxt, Tail(comps))

\* the node a path names for a process whose working directory is cwd
\* (the empty path names nothing)
Resolve(f, cwd, path) ==
  IF path = <<>> THEN None
  ELSE Walk(f, IF IsAbsolute(path) THEN Root ELSE cwd, Components(path))

\* an exists() that answers yes for files only
PathExistsAsFile(f, cwd, path) ==
  LET r == Resolve(f, cwd, path) IN r # None /\ IsFile(f, r[1])

\* Path::exists
PathExists(f, cwd, path) ==
  LET r == Resolve(f, cwd, path) IN r # None /\ Exists(f, r[1])

\* a create_dir that also succeeds on a directory that is there (create_dir_all)
CanCreateDirOrThere(f, cwd, path) ==
  LET r == Resolve(f, cwd, path) IN r # None /\ (~Exists(f, r[1]) \/ IsDir(f, r[1]))

\* tokio::fs::create_dir can succeed: the parent is there, the node is not
CanCreateDir(f, cwd, path) ==
  LET r == Resolve(f, cwd, path) IN r # None /\ ~Exists(f, r[1])

\* tokio::fs::write can succeed: the parent is there, the node is no directory
CanWrite(f, cwd, path) ==
  LET r == Resolve(f, cwd, path) IN r # None /\ ~IsDir(f, r[1])

\* tokio::fs::read_to_string can succeed
CanRead(f, cwd, path) ==
  LET r == Resolve(f, cwd, path) IN r # None /\ IsFile(f, r[1])

\* tokio::fs::read_dir can succeed
CanReadDir(f, cwd, path) ==
  LET r == Resolve(f, cwd, path) IN r # None /\ IsDir(f, r[1])

Put(f, node, value) == (node :> value) @@ f

MkDir(f, cwd, path) == Put(f, Resolve(f, cwd, path)[1], Dir)
WriteTo(f, cwd, path, contents) == Put(f, Resolve(f, cwd, path)[1], File(contents))
ContentOf(f, cwd, path) == f[Resolve(f, cwd, path)[1]].content

\* the names of the entries of a directory node
Entries(f, dir) ==
  {node[Len(node)] : node \in {n \in DOMAIN f : Len(n) = Len(dir) + 1
                                               /\ SubSeq(n, 1, Len(dir)) = dir}}

\* a node with everything below it removed
Remove(f, node) ==
  LET keep == {n \in DOMAIN f : ~(Len(n) >= Len(node) /\ SubSeq(n, 1, Len(node)) = node)}
  IN  [n \in keep |-> f[n]]

(***************************************************************************)
(* fumosync.json: the Configuration and serde_json's writer and reader.    *)
(***************************************************************************)
Configuration(script_name, script_id, whitelist, is_public) ==
  [script_name |-> script_name, script_id |-> script_id,
   whitelist |-> whitelist, is_public |-> is_public]

RECURSIVE Escape(_)
\* a JSON string's body: quote and backslash are written behind a backslash
Escape(text) ==
  IF text = <<>> THEN <<>>
  ELSE (IF Head(text) \in {QUOTE, BACKSLASH} THEN <<BACKSLASH, Head(text)>>
        ELSE <<Head(text)>>) \o Escape(Tail(text))

JsonString(text) == <<QUOTE>> \o Escape(text) \o <<QUOTE>>
JsonBool(b) == IF b THEN <<"true">> ELSE <<"false">>

RECURSIVE JsonItems(_)
JsonItems(items) ==
  IF items = <<>> THEN <<>>
  ELSE <<WS>> \o JsonString(Head(items))
       \o (IF Len(items) > 1 THEN <<",">> ELSE <<WS>>) \o JsonItems(Tail(items))

JsonArray(items) == <<"[">> \o JsonItems(items) \o <<"]">>

JsonMember(key, value) == <<WS>> \o JsonString(<<key>>) \o <<":", WS>> \o value

\* serde_json::to_string_pretty(&Configuration): camelCase keys in field order
ToStringPretty(c) ==
  <<"{">> \o JsonMember("scriptName", JsonString(c.script_name)) \o <<",">>
          \o JsonMember("scriptId", JsonString(c.script_id)) \o <<",">>
          \o JsonMember("whitelist", JsonArray(c.whitelist)) \o <<",">>
          \o JsonMember("isPublic", JsonBool(c.is_public)) \o <<WS, "}">>

Punctuation == {"{", "}", "[", "]", ":", ","}
Lexeme(t, v) == [t |-> t, v |-> v]
Failed == [ok |-> FALSE, val |-> <<>>, next |-> 0]
Parsed(val, next) == [ok |-> TRUE, val |-> val, next |-> next]

RECURSIVE ScanString(_, _, _)
\* the body of a JSON string from position i up to its closing quote
ScanString(doc, i, acc) ==
  IF i > Len(doc) THEN Failed
  ELSE IF doc[i] = QUOTE THEN Parsed(acc, i + 1)
  ELSE IF doc[i] = BACKSLASH
       THEN IF i + 1 <= Len(doc) /\ doc[i + 1] \in {QUOTE, BACKSLASH}
            THEN ScanString(doc, i + 2, Append(acc, doc[i + 1]))
            ELSE Failed
       ELSE ScanString(doc, i + 1, Append(acc, doc[i]))

RECURSIVE Lex(_, _, _)
\* the lexemes of a document: punctuation, strings, true and false
Lex(doc, i, acc) ==
  IF i > Len(doc) THEN Parsed(acc, i)
  ELSE IF doc[i] = WS THEN Lex(doc, i + 1, acc)
  ELSE IF doc[i] = QUOTE
       THEN LET s == ScanString(doc, i + 1, <<>>)
            IN  IF s.ok THEN Lex(doc, s.next, Append(acc, Lexeme("str", s.val)))
                ELSE Failed
  ELSE IF doc[i] \in Punctuation
       THEN Lex(doc, i + 1, Append(acc, Lexeme("punct", <<doc[i]>>)))
  ELSE IF doc[i] \in {"true", "false"}
       THEN Lex(doc, i + 1, Append(acc, Lexeme("bool", <<doc[i]>>)))
  ELSE Failed

EndOfInput == Lexeme("eof", <<>>)
At(toks, i) == IF i >= 1 /\ i <= Len(toks) THEN toks[i] ELSE EndOfInput
IsPunct(toks, i, c) == At(toks, i) = Lexeme("punct", <<c>>)

RECURSIVE ParseItems(_, _, _)
\* the strings of an array after its "[" (or after a ","), up to its "]"
ParseItems(toks, i, acc) ==
  IF At(toks, i).t # "str" THEN Failed
  ELSE IF IsPunct(toks, i + 1, ",")
       THEN ParseItems(toks, i + 2, Append(acc, At(toks, i).v))
  ELSE IF IsPunct(toks, i + 1, "]")
       THEN Parsed(Lexeme("arr", Append(acc, At(toks, i).v)), i + 2)
  ELSE Failed

\* a value: a string, a boolean or an array of strings
ParseValue(toks, i) ==
  IF At(toks, i).t \in {"str", "bool"} THEN Parsed(At(toks, i), i + 1)
  ELSE IF IsPunct(toks, i, "[")
       THEN IF IsPunct(toks, i + 1, "]") THEN Parsed(Lexeme("arr", <<>>), i + 2)
            ELSE ParseItems(toks, i + 1, <<>>)
  ELSE Failed

RECURSIVE ParseMembers(_, _, _)
\* the members of an object after its "{" (or after a ","), up to its "}"
ParseMembers(toks, i, acc) ==
  IF At(toks, i).t # "str" \/ ~IsPunct(toks, i + 1, ":") THEN Failed
  ELSE LET v == ParseValue(toks, i + 2)
           member == [key |-> At(toks, i).v, value |-> v.val]
       IN  IF ~v.ok THEN Failed
           ELSE IF IsPunct(toks, v.next, ",")
                THEN ParseMembers(toks, v.next + 1, Append(acc, member))
           ELSE IF IsPunct(toks, v.next, "}")
                THEN Parsed(Append(acc, member), v.next + 1)
           ELSE Failed

\* a whole document: one object and nothing behind it
ParseObject(toks) ==
  IF ~IsPunct(toks, 1, "{") THEN Failed
  ELSE LET m == IF IsPunct(toks, 2, "}") THEN Parsed(<<>>, 3)
                ELSE ParseMembers(toks, 2, <<>>)
       IN  IF m.ok /\ m.next = Len(toks) + 1 THEN m ELSE Failed

\* the values an object gives for a key
Field(members, key) ==
  SelectSeq(members, LAMBDA m : m.key = <<key>>)

\* serde_json::from_str::<Configuration>: every field once and of its type,
\* unknown fields ignored
FromStr(doc) ==
  LET lexed == Lex(doc, 1, <<>>)
      obj == IF lexed.ok THEN ParseObject(lexed.val) ELSE Failed
      name == Field(obj.val, "scriptName")
      id == Field(obj.val, "scriptId")
      wl == Field(obj.val, "whitelist")
      pub == Field(obj.val, "isPublic")
  IN  IF obj.ok /\ Len(name) = 1 /\ Len(id) = 1 /\ Len(wl) = 1 /\ Len(pub) = 1
         /\ name[1].value.t = "str" /\ id[1].value.t = "str"
         /\ wl[1].value.t = "arr" /\ pub[1].value.t = "bool"
      THEN Parsed(Configuration(name[1].value.v, id[1].value.v, wl[1].value.v,
                                pub[1].value.v = <<"true">>), 0)
      ELSE Failed

(***************************************************************************)
(* Names and contents project.rs fixes.                                    *)
(***************************************************************************)
Pkg == <<"pkg">>
VsCode == <<DOT, "vscode">>
SettingsJson == <<"settings", DOT, "json">>
InitServerLuau == <<"init", DOT, "server", DOT, "luau">>
ReadmeMd == <<"README", DOT, "md">>
TypesDLuau == <<"types", DOT, "d", DOT, "luau">>
FumosyncJson == <<"fumosync", DOT, "json">>

SettingsText == <<"{", WS, QUOTE, "luau-lsp", DOT, "types", DOT, "definitionFiles", QUOTE, "}">>
MainStub == <<"--", WS, "you can require packages with requireM">>
ReadmeStub == <<"#", WS, "stuff here">>
TypesText == <<"declare", WS, "loadstringEnabled">>
Sentinel == <<"???">>
Unknown == <<"unknown">>

(***************************************************************************)
(* Inputs: what the caller passes and what the remote editor holds.        *)
(***************************************************************************)
Procs == 1..2
Directories == {<<"demo">>, <<>>}
ScriptIds == {<<"42">>, Sentinel}

NameTokens == {"a", DOT, SLASH}
RECURSIVE TextsUpTo(_)
TextsUpTo(n) ==
  IF n = 0 THEN {<<>>}
  ELSE LET shorter == TextsUpTo(n - 1)
       IN  shorter \cup {Append(t, c) : t \in {u \in shorter : Len(u) = n - 1},
                                         c \in NameTokens}
ModuleNames == TextsUpTo(MaxNameLen)
\* every module has a source of its own, so that sources cannot be mixed up
SourceOf(name) == <<"return", WS>> \o name
ModuleMaps ==
  {[name \in names |-> SourceOf(name)] :
     names \in {ns \in SUBSET ModuleNames : Cardinality(ns) <= MaxModules}}

\* the fields of a snapshot other than its modules: a plain one, and one whose
\* strings need escaping in JSON
Profiles ==
  { [name |-> <<"demo">>, description |-> <<"a", WS, "demo">>, whitelist |-> <<>>,
     is_public |-> FALSE, main |-> <<"print", WS, "1">>],
    [name |-> <<"my", QUOTE, BACKSLASH, "script">>, description |-> <<"#", WS, QUOTE>>,
     whitelist |-> << <<"alice">>, <<QUOTE, "bob">> >>,
     is_public |-> TRUE, main |-> <<"return", WS, "2">>] }

\* what get_editor returns as script_info
ScriptInfo(profile, modules) ==
  [name |-> profile.name, description |-> profile.description,
   whitelist |-> profile.whitelist, is_public |-> profile.is_public,
   main |-> profile.main, modules |-> modules]
ScriptInfos == {ScriptInfo(profile, modules) : profile \in Profiles, modules \in ModuleMaps}

(***************************************************************************)
(* Errors (crate::error::Error) and EditorUpdate actions.                  *)
(***************************************************************************)
Error(kind, path) == [kind |-> kind, path |-> path, inner |-> <<>>]
ProjectDidntInitialize(e) ==
  [kind |-> "ProjectDidntInitialize", path |-> <<>>, inner |-> <<e>>]

Name(v) == [type |-> "Name", name |-> <<>>, value |-> v]
Whitelist(v) == [type |-> "Whitelist", name |-> <<>>, value |-> v]
Publicity(v) == [type |-> "Publicity", name |-> <<>>, value |-> v]
Description(v) == [type |-> "Description", name |-> <<>>, value |-> v]
MainSource(v) == [type |-> "MainSource", name |-> <<>>, value |-> v]
Module(n, v) == [type |-> "Module", name |-> n, value |-> v]

(***************************************************************************)
(* State.                                                                  *)
(***************************************************************************)
VARIABLES
  fs,          \* the file system
  concurrent,  \* whether invocations may overlap (fixed by the specification)
  pc,          \* pc[p]: the await point invocation p is at ("idle", "done")
  call,        \* call[p]: the operation p runs and its arguments
  loc,         \* loc[p]: the local variables of the operation
  result,      \* result[p]: what the operation returned
  log,         \* log[p]: the file-system and network calls p made, in order
  submitted,   \* submitted[p]: the set_editor calls p made
  fsAtCall,    \* fsAtCall[p]: the file system when p was started
  calls,       \* invocations started so far
  edits        \* user edits made so far

vars == <<fs, concurrent, pc, call, loc, result, log, submitted, fsAtCall, calls, edits>>

NoInfo ==
  [name |-> <<>>, description |-> <<>>, whitelist |-> <<>>, is_public |-> FALSE,
   main |-> <<>>, modules |-> <<>>]
NoConfiguration == Configuration(<<>>, <<>>, <<>>, FALSE)

NoLocals ==
  [script_info |-> NoInfo,        \* pull_project: client.get_editor(..).script_info
   todo |-> {},                   \* pull_project: modules the for loop has yet to write
   configuration |-> NoConfiguration,
   description |-> <<>>, main_source |-> <<>>,
   stream |-> {},                 \* push_project: entries read_dir has yet to yield
   module |-> <<>>,               \* push_project: the entry next_entry yielded
   modules |-> <<>>,              \* push_project: Vec<(String, String)>
   actions |-> <<>>]              \* push_project: Vec<EditorUpdate>

NoCall ==
  [op |-> "none", directory |-> <<>>, script_id |-> <<>>, cwd |-> Home,
   seq |-> 0,      \* the how-manieth invocation this is
   edits |-> 0]    \* the user edits made before it started
Running == [status |-> "running", error |-> <<>>, at |-> "none"]
Ok == [status |-> "ok", error |-> <<>>, at |-> "none"]
Err(e, at) == [status |-> "err", error |-> <<e>>, at |-> at]

Event(ev, path, ok) == [ev |-> ev, path |-> path, ok |-> ok]

Init ==
  /\ fs = (Root :> Dir) @@ (Home :> Dir)
  /\ concurrent \in BOOLEAN
  /\ pc = [p \in Procs |-> "idle"]
  /\ call = [p \in Procs |-> NoCall]
  /\ loc = [p \in Procs |-> NoLocals]
  /\ result = [p \in Procs |-> Running]
  /\ log = [p \in Procs |-> <<>>]
  /\ submitted = [p \in Procs |-> <<>>]
  /\ fsAtCall = [p \in Procs |-> fs]
  /\ calls = 0
  /\ edits = 0

(***************************************************************************)
(* Starting an invocation.                                                 *)
(***************************************************************************)
Resting(p) == pc[p] \in {"idle", "done"}

\* the inputs tried: all of them for invocations that run one after another,
\* a few of them for invocations that overlap
Given(all, few) == IF concurrent THEN few ELSE all
RaceDirectories == {<<"demo">>}
RaceScriptIds == {<<"42">>}
RaceScriptInfos ==
  {ScriptInfo(profile, (<<"a">> :> SourceOf(<<"a">>))) :
     profile \in {q \in Profiles : ~q.is_public}}
\* invocations that do not overlap take the processes in turn
NextProc == 1 + (calls % Cardinality(Procs))
MayStart(p) ==
  /\ Resting(p)
  /\ calls < MaxCalls
  /\ concurrent \/ ((\A q \in Procs : Resting(q)) /\ p = NextProc)

Start(p, c, first) ==
  /\ MayStart(p)
  /\ calls' = calls + 1
  /\ call' = [call EXCEPT ![p] = [c EXCEPT !.seq = calls + 1, !.edits = edits]]
  /\ pc' = [pc EXCEPT ![p] = first]
  /\ loc' = [loc EXCEPT ![p] = NoLocals]
  /\ result' = [result EXCEPT ![p] = Running]
  /\ log' = [log EXCEPT ![p] = <<>>]
  /\ submitted' = [submitted EXCEPT ![p] = <<>>]
  /\ fsAtCall' = [fsAtCall EXCEPT ![p] = fs]
  /\ UNCHANGED <<fs, concurrent, edits>>

\* the command line runs init(directory) in Home
CallInit(p) ==
  \E directory \in Given(Directories, RaceDirectories) :
    Start(p, [NoCall EXCEPT !.op = "init", !.directory = directory], "exists")

\* the command line runs pull_project(script_id, project_directory) in Home
CallPull(p) ==
  \E directory \in Given(Directories, RaceDirectories),
     script_id \in Given(ScriptIds, RaceScriptIds) :
    Start(p, [NoCall EXCEPT !.op = "pull", !.directory = directory,
                            !.script_id = script_id], "secrets")

\* the directories push_project is run in
PushDirs == {Home, Append(Home, <<"demo">>)}

\* the command line runs push_project() in an existing directory
CallPush(p) ==
  \E cwd \in {d \in Given(PushDirs, {Append(Home, <<"demo">>)}) : IsDir(fs, d)} :
    Start(p, [NoCall EXCEPT !.op = "push", !.cwd = cwd], "read_configuration")

(***************************************************************************)
(* Steps shared by the operations.                                         *)
(***************************************************************************)
Logged(p, ev, path, ok) == log' = [log EXCEPT ![p] = Append(@, Event(ev, path, ok))]

\* the operation returns Ok(())
ReturnOk(p) ==
  /\ pc' = [pc EXCEPT ![p] = "done"]
  /\ result' = [result EXCEPT ![p] = Ok]

\* an operation that notes the error of a step and tries the step again
ReturnErrAndRetry(p, e) ==
  /\ pc' = pc
  /\ result' = [result EXCEPT ![p] = Err(e, pc[p])]

\* the operation returns Err(e), by ? or by return
ReturnErr(p, e) ==
  /\ pc' = [pc EXCEPT ![p] = "done"]
  /\ result' = [result EXCEPT ![p] = Err(e, pc[p])]

Goto(p, next) ==
  /\ pc' = [pc EXCEPT ![p] = next]
  /\ UNCHANGED result

\* what a failed file-system call can leave behind: nothing, or (for a write
\* that created the file and then failed) the file cut short
IoOutcomes == {"ok", "error"}
WriteOutcomes == {"ok", "error", "torn"}
\* the outcomes of a write that is atomic
AtomicWriteOutcomes == {"ok", "error"}

\* a pull_project that passes the error of its init step on as it is
InitFailureUnwrapped(op, e) == e

\* pull_project wraps an error of its init step; init on its own does not
InitFailure(op, e) == IF op = "pull" THEN ProjectDidntInitialize(e) ELSE e

\* create_directory(path).await? at an await point of init
create_directory(p, path, next) ==
  \E io \in IoOutcomes :
    IF io = "ok" /\ CanCreateDir(fs, call[p].cwd, path)
    THEN /\ fs' = MkDir(fs, call[p].cwd, path)
         /\ Logged(p, "create_dir", path, TRUE)
         /\ Goto(p, next)
    ELSE /\ UNCHANGED fs
         /\ Logged(p, "create_dir", path, FALSE)
         /\ ReturnErr(p, InitFailure(call[p].op, Error("CreateDirectory", path)))

\* the file system after write_file(path, contents) ended with outcome io
Written(f, cwd, path, contents, io) ==
  IF ~CanWrite(f, cwd, path) \/ io = "error" THEN f
  ELSE IF io = "torn" THEN WriteTo(f, cwd, path, <<>>)
  ELSE WriteTo(f, cwd, path, contents)

WriteSucceeds(f, cwd, path, io) == io = "ok" /\ CanWrite(f, cwd, path)

\* write_file(path, contents).await? at an await point of init
init_write_file(p, path, contents, next) ==
  \E io \in Given(WriteOutcomes, AtomicWriteOutcomes) :
    /\ fs' = Written(fs, call[p].cwd, path, contents, io)
    /\ Logged(p, "write", path, WriteSucceeds(fs, call[p].cwd, path, io))
    /\ IF WriteSucceeds(fs, call[p].cwd, path, io)
       THEN Goto(p, next)
       ELSE ReturnErr(p, InitFailure(call[p].op, Error("CreateFile", path)))

At_(p, where) == pc[p] = where
Untouched == UNCHANGED <<concurrent, call, loc, submitted, fsAtCall, calls, edits>>

(***************************************************************************)
(* init(directory)                                                         *)
(***************************************************************************)
\* an init that never names the script after the directory
InitConfigurationUnnamed(directory) ==
  Configuration(Unknown, Sentinel, <<>>, FALSE)

\* the Configuration init writes
InitConfiguration(directory) ==
  Configuration(UnwrapOr(FileName(directory), Unknown), Sentinel, <<>>, FALSE)

\* an init that does not look at the directory first
DirectoryNeverExists(f, cwd, directory) == FALSE

\* directory.exists()
DirectoryExists(f, cwd, directory) == PathExists(f, cwd, directory)

\* if directory.exists() { return Err(DirectoryAlreadyExists(directory)) }
InitExists(p) ==
  /\ At_(p, "exists")
  /\ IF DirectoryExists(fs, call[p].cwd, call[p].directory)
     THEN ReturnErr(p, InitFailure(call[p].op,
                                   Error("DirectoryAlreadyExists", call[p].directory)))
     ELSE Goto(p, "create_root")
  /\ Logged(p, "exists", call[p].directory,
            PathExists(fs, call[p].cwd, call[p].directory))
  /\ UNCHANGED fs
  /\ Untouched

InitCreateRoot(p) ==
  /\ At_(p, "create_root")
  /\ create_directory(p, call[p].directory, "create_pkg")
  /\ Untouched

InitCreatePkg(p) ==
  /\ At_(p, "create_pkg")
  /\ create_directory(p, Join(call[p].directory, Pkg), "create_vscode")
  /\ Untouched

InitCreateVsCode(p) ==
  /\ At_(p, "create_vscode")
  /\ create_directory(p, Join(call[p].directory, VsCode), "write_settings")
  /\ Untouched

InitWriteSettings(p) ==
  /\ At_(p, "write_settings")
  /\ init_write_file(p, Join(Join(call[p].directory, VsCode), SettingsJson),
                     SettingsText, "write_main_stub")
  /\ Untouched

InitWriteMain(p) ==
  /\ At_(p, "write_main_stub")
  /\ init_write_file(p, Join(call[p].directory, InitServerLuau), MainStub,
                     "write_readme_stub")
  /\ Untouched

InitWriteReadme(p) ==
  /\ At_(p, "write_readme_stub")
  /\ init_write_file(p, Join(call[p].directory, ReadmeMd), ReadmeStub, "write_types")
  /\ Untouched

\* an init that writes the configuration without having written types.d.luau
InitWriteTypesLater(p) ==
  /\ At_(p, "write_types")
  /\ Goto(p, "write_init_configuration")
  /\ UNCHANGED <<fs, log>>
  /\ Untouched

InitWriteTypes(p) ==
  /\ At_(p, "write_types")
  /\ init_write_file(p, Join(call[p].directory, TypesDLuau), TypesText,
                     "write_init_configuration")
  /\ Untouched

\* the last write of init; Ok(()) follows it without another await, and in
\* pull_project the next await is get_editor
InitWriteConfiguration(p) ==
  /\ At_(p, "write_init_configuration")
  /\ \E io \in Given(WriteOutcomes, AtomicWriteOutcomes) :
       LET path == Join(call[p].directory, FumosyncJson)
           good == WriteSucceeds(fs, call[p].cwd, path, io)
       IN  /\ fs' = Written(fs, call[p].cwd, path,
                            ToStringPretty(InitConfiguration(call[p].directory)), io)
           /\ Logged(p, "write", path, good)
           /\ IF ~good
              THEN ReturnErr(p, InitFailure(call[p].op, Error("CreateFile", path)))
              ELSE IF call[p].op = "pull" THEN Goto(p, "get_editor")
              ELSE ReturnOk(p)
  /\ Untouched

(***************************************************************************)
(* pull_project(script_id, project_directory)                              *)
(***************************************************************************)
\* a pull_project that has created its directory when the secrets fail
PullSecretsAfterCreating(p) ==
  /\ At_(p, "secrets") /\ call[p].op = "pull"
  /\ \E ok \in BOOLEAN :
       /\ Logged(p, "get_session_secrets", <<>>, ok)
       /\ IF ok
          THEN Goto(p, "exists") /\ UNCHANGED fs
          ELSE /\ ReturnErr(p, Error("Secrets", <<>>))
               /\ fs' = IF CanCreateDir(fs, call[p].cwd, call[p].directory)
                         THEN MkDir(fs, call[p].cwd, call[p].directory) ELSE fs
  /\ Untouched

\* Client::new(get_session_secrets().await?)
PullSecrets(p) ==
  /\ At_(p, "secrets") /\ call[p].op = "pull"
  /\ \E ok \in BOOLEAN :
       /\ Logged(p, "get_session_secrets", <<>>, ok)
       /\ IF ok THEN Goto(p, "exists")
          ELSE ReturnErr(p, Error("Secrets", <<>>))
  /\ UNCHANGED fs
  /\ Untouched

\* client.get_editor(&script_id).await?.script_info
PullGetEditor(p) ==
  /\ At_(p, "get_editor")
  /\ \E ok \in BOOLEAN :
       /\ Logged(p, "get_editor", call[p].script_id, ok)
       /\ IF ok
          THEN /\ \E info \in Given(ScriptInfos, RaceScriptInfos) :
                    loc' = [loc EXCEPT ![p].script_info = info,
                                       ![p].todo = DOMAIN info.modules]
               /\ Goto(p, "write_readme")
          ELSE /\ UNCHANGED loc
               /\ ReturnErr(p, Error("Client", <<>>))
  /\ UNCHANGED <<fs, concurrent, call, submitted, fsAtCall, calls, edits>>

\* write_file(path, contents).await? at an await point of pull_project
pull_write_file(p, path, contents, next) ==
  \E io \in Given(WriteOutcomes, AtomicWriteOutcomes) :
    /\ fs' = Written(fs, call[p].cwd, path, contents, io)
    /\ Logged(p, "write", path, WriteSucceeds(fs, call[p].cwd, path, io))
    /\ IF WriteSucceeds(fs, call[p].cwd, path, io)
       THEN IF next = "done" THEN ReturnOk(p) ELSE Goto(p, next)
       ELSE ReturnErr(p, Error("CreateFile", path))

\* a pull_project that writes the configuration before it has written README.md
\* (it leaves README.md for later)
PullWriteReadmeLater(p) ==
  /\ At_(p, "write_readme")
  /\ Goto(p, "write_main")
  /\ UNCHANGED <<fs, log>>
  /\ Untouched

PullWriteReadme(p) ==
  /\ At_(p, "write_readme")
  /\ pull_write_file(p, Join(call[p].directory, ReadmeMd),
                     loc[p].script_info.description, "write_main")
  /\ Untouched

PullWriteMain(p) ==
  /\ At_(p, "write_main")
  /\ pull_write_file(p, Join(call[p].directory, InitServerLuau),
                     loc[p].script_info.main, "write_configuration")
  /\ Untouched

\* a pull_project that leaves the script id init wrote
PullConfigurationKeepingSentinel(script_id, info) ==
  Configuration(info.name, Sentinel, info.whitelist, info.is_public)

\* the Configuration pull_project writes
PullConfiguration(script_id, info) ==
  Configuration(info.name, script_id, info.whitelist, info.is_public)

\* with no module to write, Ok(()) follows without another await
PullWriteConfiguration(p) ==
  /\ At_(p, "write_configuration")
  /\ pull_write_file(p, Join(call[p].directory, FumosyncJson),
                     ToStringPretty(PullConfiguration(call[p].script_id,
                                                      loc[p].script_info)),
                     IF loc[p].todo = {} THEN "done" ELSE "write_module")
  /\ Untouched

\* where pull_project writes a module
ModulePath(directory, name) == Join(Join(directory, Pkg), ModuleFile(name))

\* one turn of: for (name, source) in script_info.source.modules { write_file }
\* (the map yields its entries in any order)
PullWriteModule(p) ==
  /\ At_(p, "write_module")
  /\ \E name \in loc[p].todo :
       /\ pull_write_file(p, ModulePath(call[p].directory, name),
                          loc[p].script_info.modules[name],
                          IF loc[p].todo = {name} THEN "done" ELSE "write_module")
       /\ loc' = [loc EXCEPT ![p].todo = @ \ {name}]
  /\ UNCHANGED <<concurrent, call, submitted, fsAtCall, calls, edits>>

(***************************************************************************)
(* push_project()                                                          *)
(***************************************************************************)
Success(val) == [ok |-> TRUE, val |-> val, err |-> <<>>]
Failure(e) == [ok |-> FALSE, val |-> <<>>, err |-> <<e>>]

\* the Error a serde_json::Error becomes under ?
Deserialize == Error("Deserialize", <<>>)

\* tokio::fs::read_to_string(path) succeeds
ReadSucceeds(f, cwd, path, io) == io = "ok" /\ CanRead(f, cwd, path)

\* a read_file that takes a file it cannot read for an empty one
read_file_or_empty(f, cwd, path, io) ==
  Success(IF ReadSucceeds(f, cwd, path, io) THEN ContentOf(f, cwd, path) ELSE <<>>)

\* read_file(path): the text of the file, or ReadFile(path, io_error)
read_file(f, cwd, path, io) ==
  IF ReadSucceeds(f, cwd, path, io) THEN Success(ContentOf(f, cwd, path))
  ELSE Failure(Error("ReadFile", path))

\* a read_configuration that reports every failure as a parse failure
read_configuration_deserialize_only(f, cwd, io) ==
  LET text == read_file(f, cwd, FumosyncJson, io)
      parsed == FromStr(text.val)
  IN  IF text.ok /\ parsed.ok THEN Success(parsed.val) ELSE Failure(Deserialize)

\* a read_configuration that falls back to a default when the file is missing
read_configuration_or_default(f, cwd, io) ==
  LET text == read_file(f, cwd, FumosyncJson, io)
      parsed == FromStr(text.val)
  IN  IF ~text.ok THEN Success(NoConfiguration)
      ELSE IF parsed.ok THEN Success(parsed.val)
      ELSE Failure(Deserialize)

\* read_configuration(): serde_json::from_str(&read_file("fumosync.json").await?)?
read_configuration(f, cwd, io) ==
  LET text == read_file(f, cwd, FumosyncJson, io)
      parsed == FromStr(text.val)
  IN  IF ~text.ok THEN text
      ELSE IF parsed.ok THEN Success(parsed.val)
      ELSE Failure(Deserialize)

PushReadConfiguration(p) ==
  /\ At_(p, "read_configuration")
  /\ \E io \in IoOutcomes :
       LET r == read_configuration(fs, call[p].cwd, io)
       IN  /\ Logged(p, "read", FumosyncJson,
                      ReadSucceeds(fs, call[p].cwd, FumosyncJson, io))
           /\ IF r.ok
              THEN /\ loc' = [loc EXCEPT ![p].configuration = r.val]
                   /\ Goto(p, "read_readme")
              ELSE /\ UNCHANGED loc
                   /\ ReturnErr(p, r.err[1])
  /\ UNCHANGED <<fs, concurrent, call, submitted, fsAtCall, calls, edits>>

\* a push_project that takes README.md away once it has read it
PushReadReadmeConsuming(p) ==
  /\ At_(p, "read_readme")
  /\ \E io \in IoOutcomes :
       LET r == read_file(fs, call[p].cwd, ReadmeMd, io)
       IN  /\ Logged(p, "read", ReadmeMd, ReadSucceeds(fs, call[p].cwd, ReadmeMd, io))
           /\ IF r.ok
              THEN /\ loc' = [loc EXCEPT ![p].description = r.val]
                   /\ fs' = WriteTo(fs, call[p].cwd, ReadmeMd, <<>>)
                   /\ Goto(p, "read_main")
              ELSE /\ UNCHANGED <<loc, fs>>
                   /\ ReturnErr(p, r.err[1])
  /\ UNCHANGED <<concurrent, call, submitted, fsAtCall, calls, edits>>

\* let description = &read_file("README.md").await?
PushReadReadme(p) ==
  /\ At_(p, "read_readme")
  /\ \E io \in IoOutcomes :
       LET r == read_file(fs, call[p].cwd, ReadmeMd, io)
       IN  /\ Logged(p, "read", ReadmeMd, ReadSucceeds(fs, call[p].cwd, ReadmeMd, io))
           /\ IF r.ok
              THEN /\ loc' = [loc EXCEPT ![p].description = r.val]
                   /\ Goto(p, "read_main")
              ELSE /\ UNCHANGED loc
                   /\ ReturnErr(p, r.err[1])
  /\ UNCHANGED <<fs, concurrent, call, submitted, fsAtCall, calls, edits>>

\* let main_source = &read_file("init.server.luau").await?
PushReadMain(p) ==
  /\ At_(p, "read_main")
  /\ \E io \in IoOutcomes :
       LET r == read_file(fs, call[p].cwd, InitServerLuau, io)
       IN  /\ Logged(p, "read", InitServerLuau,
                      ReadSucceeds(fs, call[p].cwd, InitServerLuau, io))
           /\ IF r.ok
              THEN /\ loc' = [loc EXCEPT ![p].main_source = r.val]
                   /\ Goto(p, "read_dir")
              ELSE /\ UNCHANGED loc
                   /\ ReturnErr(p, r.err[1])
  /\ UNCHANGED <<fs, concurrent, call, submitted, fsAtCall, calls, edits>>

\* tokio::fs::read_dir(&pkg_path): the stream holds the entries of pkg
PushReadDir(p) ==
  /\ At_(p, "read_dir")
  /\ \E io \in IoOutcomes :
       LET good == io = "ok" /\ CanReadDir(fs, call[p].cwd, Pkg)
       IN  /\ Logged(p, "read_dir", Pkg, good)
           /\ IF good
              THEN /\ loc' = [loc EXCEPT ![p].stream =
                                Entries(fs, Resolve(fs, call[p].cwd, Pkg)[1])]
                   /\ Goto(p, "next_entry")
              ELSE /\ UNCHANGED loc
                   /\ ReturnErr(p, Error("ReadDirectory", Pkg))
  /\ UNCHANGED <<fs, concurrent, call, submitted, fsAtCall, calls, edits>>

\* an action sequence with the Module actions in front
ActionsModulesFirst(configuration, description, main_source, modules) ==
  [i \in 1..Len(modules) |-> Module(modules[i].name, modules[i].source)]
  \o << Name(configuration.script_name),
        Whitelist(configuration.whitelist),
        Publicity(configuration.is_public),
        Description(description),
        MainSource(main_source) >>

\* the five leading actions and one Module action per collected module
Actions(configuration, description, main_source, modules) ==
  << Name(configuration.script_name),
     Whitelist(configuration.whitelist),
     Publicity(configuration.is_public),
     Description(description),
     MainSource(main_source) >>
  \o [i \in 1..Len(modules) |-> Module(modules[i].name, modules[i].source)]

\* stream.next_entry().await?: an entry (in any order), the end of the
\* directory (the actions are then assembled), or an error
PushNextEntry(p) ==
  /\ At_(p, "next_entry")
  /\ \E io \in IoOutcomes :
       IF io = "error"
       THEN /\ Logged(p, "next_entry", <<>>, FALSE)
            /\ UNCHANGED loc
            /\ ReturnErr(p, Error("Io", Pkg))
       ELSE IF loc[p].stream = {}
       THEN /\ Logged(p, "next_entry", <<>>, TRUE)
            /\ loc' = [loc EXCEPT ![p].actions =
                         Actions(loc[p].configuration, loc[p].description,
                                 loc[p].main_source, loc[p].modules)]
            /\ Goto(p, "push_secrets")
       ELSE \E entry \in loc[p].stream :
              /\ Logged(p, "next_entry", entry, TRUE)
              /\ loc' = [loc EXCEPT ![p].module = entry, ![p].stream = @ \ {entry}]
              /\ Goto(p, "file_type")
  /\ UNCHANGED <<fs, concurrent, call, submitted, fsAtCall, calls, edits>>

\* a filter that takes the extension in either case
SelectedIgnoringCase(kind, file) ==
  kind = "file" /\ UnwrapOr(Extension(file), <<>>) \in {Luau, <<"LUAU">>}

\* file_type.is_file() && module.path().extension().unwrap_or("") == "luau"
Selected(kind, file) == kind = "file" /\ UnwrapOr(Extension(file), <<>>) = Luau

\* a discovery that takes an entry whose kind it could not learn for a module
AfterFileTypeAssumingFile(known, kind, file) ==
  IF ~known \/ Selected(kind, file) THEN "read_module" ELSE "next_entry"

\* if let Ok(file_type) = .. { if selected { read it } } else { info!(..) }:
\* where the loop goes on after the kind lookup
AfterFileType(known, kind, file) ==
  IF known /\ Selected(kind, file) THEN "read_module" ELSE "next_entry"

\* module.file_type().await: a failure skips the entry
PushFileType(p) ==
  /\ At_(p, "file_type")
  /\ \E io \in IoOutcomes :
       LET path == Join(Pkg, loc[p].module)
           good == io = "ok" /\ PathExists(fs, call[p].cwd, path)
           kind == IF good THEN fs[Resolve(fs, call[p].cwd, path)[1]].kind ELSE "unknown"
       IN  /\ Logged(p, "file_type", path, good)
           /\ Goto(p, AfterFileType(good, kind, loc[p].module))
  /\ UNCHANGED <<fs, concurrent, call, loc, submitted, fsAtCall, calls, edits>>

\* the name push_project gives the module of an entry
ModuleName(file) == WithoutExtension(file)

\* let source = read_file(module.path()).await?; modules.push((name, source))
PushReadModule(p) ==
  /\ At_(p, "read_module")
  /\ \E io \in IoOutcomes :
       LET path == Join(Pkg, loc[p].module)
           r == read_file(fs, call[p].cwd, path, io)
       IN  /\ Logged(p, "read", path, ReadSucceeds(fs, call[p].cwd, path, io))
           /\ IF r.ok
              THEN /\ loc' = [loc EXCEPT ![p].modules =
                                Append(@, [name |-> ModuleName(loc[p].module),
                                           source |-> r.val])]
                   /\ Goto(p, "next_entry")
              ELSE /\ UNCHANGED loc
                   /\ ReturnErr(p, r.err[1])
  /\ UNCHANGED <<fs, concurrent, call, submitted, fsAtCall, calls, edits>>

\* Client::new(get_session_secrets().await?)
PushSecrets(p) ==
  /\ At_(p, "push_secrets")
  /\ \E ok \in BOOLEAN :
       /\ Logged(p, "get_session_secrets", <<>>, ok)
       /\ IF ok THEN Goto(p, "set_editor")
          ELSE ReturnErr(p, Error("Secrets", <<>>))
  /\ UNCHANGED fs
  /\ Untouched

\* client.set_editor(&configuration.script_id, &actions).await?
PushSetEditor(p) ==
  /\ At_(p, "set_editor")
  /\ submitted' = [submitted EXCEPT ![p] =
                     Append(@, [script_id |-> loc[p].configuration.script_id,
                                actions |-> loc[p].actions])]
  /\ \E ok \in BOOLEAN :
       /\ Logged(p, "set_editor", loc[p].configuration.script_id, ok)
       /\ IF ok THEN ReturnOk(p) ELSE ReturnErr(p, Error("Client", <<>>))
  /\ UNCHANGED <<fs, concurrent, call, loc, fsAtCall, calls, edits>>

(***************************************************************************)
(* The user edits the project in Home/demo between (or, when invocations   *)
(* may overlap, during) invocations.                                       *)
(***************************************************************************)
Project == Append(Home, <<"demo">>)

\* what the user does in one sitting: files and directories added to pkg/ that
\* are no modules, or the whole project removed
UserEdits ==
  { << [op |-> "write", path |-> Join(Pkg, <<"notes", DOT, "txt">>), contents |-> <<"notes">>],
       [op |-> "mkdir", path |-> Join(Pkg, <<"sub">>), contents |-> <<>>] >>,
    << [op |-> "write", path |-> Join(Pkg, <<"c", DOT, "LUAU">>), contents |-> <<"upper">>] >>,
    << [op |-> "mkdir", path |-> Join(Pkg, <<"d", DOT, "luau">>), contents |-> <<>>] >>,
    << [op |-> "remove", path |-> CurDir, contents |-> <<>>] >> }

Edited(f, e) ==
  IF e.op = "write" THEN WriteTo(f, Project, e.path, e.contents)
  ELSE IF e.op = "mkdir" THEN MkDir(f, Project, e.path)
  ELSE Remove(f, Resolve(f, Project, e.path)[1])

CanEdit(f, e) ==
  IF e.op = "write" THEN CanWrite(f, Project, e.path)
  ELSE IF e.op = "mkdir" THEN CanCreateDir(f, Project, e.path)
  ELSE PathExists(f, Project, e.path)

RECURSIVE CanEditAll(_, _)
CanEditAll(f, es) ==
  IF es = <<>> THEN TRUE
  ELSE CanEdit(f, Head(es)) /\ CanEditAll(Edited(f, Head(es)), Tail(es))

RECURSIVE EditedAll(_, _)
EditedAll(f, es) ==
  IF es = <<>> THEN f ELSE EditedAll(Edited(f, Head(es)), Tail(es))

Edit ==
  /\ edits < MaxEdits
  /\ calls < MaxCalls
  /\ IsDir(fs, Project)
  /\ concurrent \/ \A q \in Procs : Resting(q)
  /\ \E es \in UserEdits :
       /\ CanEditAll(fs, es)
       /\ fs' = EditedAll(fs, es)
  /\ edits' = edits + 1
  /\ UNCHANGED <<concurrent, pc, call, loc, result, log, submitted, fsAtCall, calls>>

(***************************************************************************)
(* The specifications.                                                     *)
(***************************************************************************)
Next ==
  \/ \E p \in Procs : CallInit(p)
  \/ \E p \in Procs : CallPull(p)
  \/ \E p \in Procs : CallPush(p)
  \/ \E p \in Procs : InitExists(p)
  \/ \E p \in Procs : InitCreateRoot(p)
  \/ \E p \in Procs : InitCreatePkg(p)
  \/ \E p \in Procs : InitCreateVsCode(p)
  \/ \E p \in Procs : InitWriteSettings(p)
  \/ \E p \in Procs : InitWriteMain(p)
  \/ \E p \in Procs : InitWriteReadme(p)
  \/ \E p \in Procs : InitWriteTypes(p)
  \/ \E p \in Procs : InitWriteConfiguration(p)
  \/ \E p \in Procs : PullSecrets(p)
  \/ \E p \in Procs : PullGetEditor(p)
  \/ \E p \in Procs : PullWriteReadme(p)
  \/ \E p \in Procs : PullWriteMain(p)
  \/ \E p \in Procs : PullWriteConfiguration(p)
  \/ \E p \in Procs : PullWriteModule(p)
  \/ \E p \in Procs : PushReadConfiguration(p)
  \/ \E p \in Procs : PushReadReadme(p)
  \/ \E p \in Procs : PushReadMain(p)
  \/ \E p \in Procs : PushReadDir(p)
  \/ \E p \in Procs : PushNextEntry(p)
  \/ \E p \in Procs : PushFileType(p)
  \/ \E p \in Procs : PushReadModule(p)
  \/ \E p \in Procs : PushSecrets(p)
  \/ \E p \in Procs : PushSetEditor(p)
  \/ Edit

\* invocations run one after another
SequentialInit == Init /\ ~concurrent
Spec == SequentialInit /\ [][Next]_vars

\* invocations may overlap
ConcurrentInit == Init /\ concurrent
ConcurrentSpec == ConcurrentInit /\ [][Next]_vars

(***************************************************************************)
(* Properties.                                                             *)
(***************************************************************************)
Done(p) == pc[p] = "done"
\* nothing has happened since p was started but p's own steps
Quiet(p) == call[p].seq = calls /\ call[p].edits = edits
\* the node of the directory p was given
ProjectNode(p) == Resolve(fs, Home, call[p].directory)[1]
\* p made the call ev, with this outcome, on path
Did(p, ev, path, ok) == \E i \in 1..Len(log[p]) : log[p][i] = Event(ev, path, ok)
\* p created the directory it was given
Created(p) == Did(p, "create_dir", call[p].directory, TRUE)
NetworkCalls == {"get_session_secrets", "get_editor", "set_editor"}
UsedNetwork(p) == \E i \in 1..Len(log[p]) : log[p][i].ev \in NetworkCalls

FileAt(dir, file) == Append(dir, file)
\* what fumosync.json in directory node dir parses to
ConfigurationIn(f, dir) ==
  IF IsFile(f, FileAt(dir, FumosyncJson)) THEN FromStr(f[FileAt(dir, FumosyncJson)].content)
  ELSE Failed
HasSentinel(f, dir) ==
  ConfigurationIn(f, dir).ok /\ ConfigurationIn(f, dir).val.script_id = Sentinel

\* the actions a carry the fields of the snapshot info
Carries(a, info) ==
  /\ Len(a) = 5 + Cardinality(DOMAIN info.modules)
  /\ a[1] = Name(info.name)
  /\ a[2] = Whitelist(info.whitelist)
  /\ a[3] = Publicity(info.is_public)
  /\ a[4] = Description(info.description)
  /\ a[5] = MainSource(info.main)
  /\ {<<a[i].type, a[i].name, a[i].value>> : i \in 6..Len(a)}
       = {<<"Module", n, info.modules[n]>> : n \in DOMAIN info.modules}

\* q is a push_project run in the directory p pulled, after p, with no edit
\* in between
PushAfterPull(p, q) ==
  /\ call[p].op = "pull" /\ result[p] = Ok
  /\ call[q].op = "push" /\ call[q].seq > call[p].seq
  /\ call[q].edits = call[p].edits
  /\ call[q].cwd = ProjectNode(p)

\* C1: a push_project run, with no local edit, in a directory a successful
\* pull_project produced hands set_editor Name, Whitelist, Publicity,
\* Description and MainSource equal to the pulled snapshot's fields and Module
\* actions that are, as a set, the snapshot's modules.
RoundTrip ==
  \A p, q \in Procs :
    PushAfterPull(p, q) /\ submitted[q] # <<>>
      => Carries(submitted[q][1].actions, loc[p].script_info)

\* C2 as stated: the directory a pull_project created never holds, once
\* pull_project has returned, a fumosync.json whose script_id is the sentinel.
PulledNeverSentinel ==
  \A p \in Procs :
    call[p].op = "pull" /\ Done(p) /\ Created(p) /\ Quiet(p)
      => ~HasSentinel(fs, ProjectNode(p))

\* C2 amended: when pull_project returns success, fumosync.json holds the
\* script id pull_project was given (so the sentinel only if that was given).
PulledHoldsGivenId ==
  \A p \in Procs :
    call[p].op = "pull" /\ result[p] = Ok /\ Quiet(p)
      => /\ ConfigurationIn(fs, ProjectNode(p)).ok
         /\ ConfigurationIn(fs, ProjectNode(p)).val.script_id = call[p].script_id

PulledHoldsGivenIdWitness ==
  \E p \in Procs :
    /\ call[p].op = "pull" /\ result[p] = Ok /\ Quiet(p)
    /\ call[p].script_id # Sentinel
    /\ ~HasSentinel(fs, ProjectNode(p))

\* C3: an init on a path that exists when it starts returns
\* DirectoryAlreadyExists at its first step, having created no directory and
\* written no file: the file system is as it was.
SecondInitFails ==
  \A q \in Procs :
    /\ call[q].op = "init"
    /\ PathExists(fsAtCall[q], Home, call[q].directory)
    /\ pc[q] # "exists"
    => /\ Done(q)
       /\ result[q] = Err(Error("DirectoryAlreadyExists", call[q].directory), "exists")
       /\ log[q] = <<Event("exists", call[q].directory, TRUE)>>
       /\ Quiet(q) => fs = fsAtCall[q]

SecondInitFailsWitness ==
  \E p, q \in Procs :
    /\ call[p].op = "init" /\ result[p] = Ok
    /\ call[q].op = "init" /\ call[q].seq > call[p].seq
    /\ call[q].directory = call[p].directory
    /\ Done(q) /\ result[q].status = "err" /\ Quiet(q)

\* C4: a push_project run in a directory without fumosync.json fails at
\* read_configuration with the read error of that file, and acquires no
\* session secrets, builds no client and calls set_editor not at all.
PushFailsFast ==
  \A q \in Procs :
    /\ call[q].op = "push"
    /\ ~PathExists(fsAtCall[q], call[q].cwd, FumosyncJson)
    /\ pc[q] # "read_configuration"
    => /\ Done(q)
       /\ result[q] = Err(Error("ReadFile", FumosyncJson), "read_configuration")
       /\ submitted[q] = <<>>
       /\ ~UsedNetwork(q)

PushFailsFastWitness ==
  \E q \in Procs :
    /\ call[q].op = "push" /\ Done(q)
    /\ ~PathExists(fsAtCall[q], call[q].cwd, FumosyncJson)
    /\ result[q].status = "err"

\* fumosync.json was there, and no Configuration, when q started
MalformedAtCall(q) ==
  /\ CanRead(fsAtCall[q], call[q].cwd, FumosyncJson)
  /\ ~FromStr(ContentOf(fsAtCall[q], call[q].cwd, FumosyncJson)).ok
AbsentAtCall(q) == ~PathExists(fsAtCall[q], call[q].cwd, FumosyncJson)
FailedAt(q, at) == Done(q) /\ result[q].status = "err" /\ result[q].at = at

\* C5 as stated: read_configuration fails with the Deserialize kind both when
\* fumosync.json is absent and when it is present but malformed.
ReadConfigurationDeserialize ==
  \A q \in Procs :
    call[q].op = "push" /\ FailedAt(q, "read_configuration")
    /\ (AbsentAtCall(q) \/ MalformedAtCall(q))
      => result[q].error[1].kind = "Deserialize"

\* C5 amended: read_configuration fails with ReadFile(fumosync.json) when the
\* file is absent, and with the Deserialize kind when the file was read and is
\* malformed.
ReadConfigurationErrors ==
  \A q \in Procs :
    call[q].op = "push" /\ pc[q] # "read_configuration"
      => /\ AbsentAtCall(q)
              => result[q] = Err(Error("ReadFile", FumosyncJson), "read_configuration")
         /\ MalformedAtCall(q) /\ Did(q, "read", FumosyncJson, TRUE)
              => result[q] = Err(Error("Deserialize", <<>>), "read_configuration")

ReadConfigurationErrorsWitness ==
  \E q \in Procs :
    /\ call[q].op = "push" /\ FailedAt(q, "read_configuration")
    /\ MalformedAtCall(q)
    /\ result[q].error[1].kind = "Deserialize"

\* the entries of pkg whose files q read, in the order q read them
IsModuleRead(e) ==
  e.ev = "read" /\ e.ok /\ Len(e.path) > 2 /\ SubSeq(e.path, 1, 2) = <<"pkg", SLASH>>
ModulesRead(q) == SelectSeq(log[q], IsModuleRead)
EntryOf(e) == SubSeq(e.path, 3, Len(e.path))

LeadingTypes == <<"Name", "Whitelist", "Publicity", "Description", "MainSource">>

\* C6: every action sequence push_project submits is Name, Whitelist,
\* Publicity, Description, MainSource and then one Module action for each
\* module file it discovered, in the order of discovery, and nothing else.
PushActionOrder ==
  \A q \in Procs : \A k \in 1..Len(submitted[q]) :
    LET a == submitted[q][k].actions
        found == ModulesRead(q)
    IN  /\ Len(a) = 5 + Len(found)
        /\ \A i \in 1..5 : a[i].type = LeadingTypes[i]
        /\ \A i \in 1..Len(found) :
             /\ a[5 + i].type = "Module"
             /\ ModuleFile(a[5 + i].name) = EntryOf(found[i])
             /\ a[5 + i].value = fsAtCall[q][FileAt(FileAt(call[q].cwd, Pkg),
                                                     EntryOf(found[i]))].content

PushActionOrderWitness ==
  \E q \in Procs :
    /\ submitted[q] # <<>>
    /\ Len(submitted[q][1].actions) = 7
    /\ submitted[q][1].actions[6].name = <<DOT>>
    /\ submitted[q][1].actions[7].name = <<"a">>

\* the calls of a successful init, in order
InitEffects(directory) ==
  << Event("exists", directory, FALSE),
     Event("create_dir", directory, TRUE),
     Event("create_dir", directory \o <<SLASH, "pkg">>, TRUE),
     Event("create_dir", directory \o <<SLASH, DOT, "vscode">>, TRUE),
     Event("write", directory \o <<SLASH, DOT, "vscode", SLASH, "settings", DOT, "json">>, TRUE),
     Event("write", directory \o <<SLASH, "init", DOT, "server", DOT, "luau">>, TRUE),
     Event("write", directory \o <<SLASH, "README", DOT, "md">>, TRUE),
     Event("write", directory \o <<SLASH, "types", DOT, "d", DOT, "luau">>, TRUE),
     Event("write", directory \o <<SLASH, "fumosync", DOT, "json">>, TRUE) >>

\* C7: init returns success only after its eight effects succeeded in order,
\* and the directory then holds pkg/, .vscode/settings.json, init.server.luau,
\* README.md, types.d.luau and a fumosync.json with script_id "???", an empty
\* whitelist, is_public false and the path's final segment as script_name
\* ("unknown" when the path has none).
InitResult ==
  \A p \in Procs :
    call[p].op = "init" /\ result[p] = Ok /\ Quiet(p)
      => LET d == ProjectNode(p)
             c == ConfigurationIn(fs, d)
         IN  /\ log[p] = InitEffects(call[p].directory)
             /\ IsDir(fs, d) /\ IsDir(fs, FileAt(d, Pkg)) /\ IsDir(fs, FileAt(d, VsCode))
             /\ IsFile(fs, FileAt(FileAt(d, VsCode), SettingsJson))
             /\ IsFile(fs, FileAt(d, InitServerLuau))
             /\ IsFile(fs, FileAt(d, ReadmeMd))
             /\ IsFile(fs, FileAt(d, TypesDLuau))
             /\ c.ok
             /\ c.val.script_id = <<"???">>
             /\ c.val.whitelist = <<>>
             /\ c.val.is_public = FALSE
             /\ c.val.script_name = (IF FileName(call[p].directory) = None
                                     THEN <<"unknown">>
                                     ELSE d[Len(d)])

InitResultWitness ==
  \E p \in Procs :
    /\ call[p].op = "init" /\ result[p] = Ok /\ Quiet(p)
    /\ ConfigurationIn(fs, ProjectNode(p)).val.script_name = <<"demo">>

InitSteps ==
  {"exists", "create_root", "create_pkg", "create_vscode", "write_settings",
   "write_main_stub", "write_readme_stub", "write_types", "write_init_configuration"}

\* C8: pull_project returns ProjectDidntInitialize, wrapping the cause, exactly
\* when its init step failed; a failure of get_editor or of a later write is
\* never reported as ProjectDidntInitialize.
PullErrorPhases ==
  \A p \in Procs :
    call[p].op = "pull" /\ Done(p) /\ result[p].status = "err"
      => LET e == result[p].error[1]
         IN  /\ e.kind = "ProjectDidntInitialize" <=> result[p].at \in InitSteps
             /\ e.kind = "ProjectDidntInitialize"
                  => /\ Len(e.inner) = 1
                     /\ e.inner[1].kind \in
                          {"DirectoryAlreadyExists", "CreateDirectory", "CreateFile"}

PullErrorPhasesWitness ==
  \E p, q \in Procs :
    /\ call[p].op = "pull" /\ FailedAt(p, "get_editor")
    /\ result[p].error[1].kind = "Client"
    /\ call[q].op = "pull" /\ FailedAt(q, "exists")
    /\ result[q].error[1].kind = "ProjectDidntInitialize"

\* C9: when pull_project returns success, README.md is the fetched
\* description, init.server.luau the fetched main source, fumosync.json holds
\* the fetched name, the given script id, the fetched whitelist and is_public,
\* and pkg/ holds one file <name>.luau with the fetched source for each
\* fetched module and no other file.
FaithfulSnapshot ==
  \A p \in Procs :
    call[p].op = "pull" /\ result[p] = Ok /\ Quiet(p)
      => LET d == ProjectNode(p)
             info == loc[p].script_info
         IN  /\ fs[FileAt(d, ReadmeMd)] = File(info.description)
             /\ fs[FileAt(d, InitServerLuau)] = File(info.main)
             /\ ConfigurationIn(fs, d)
                  = Parsed(Configuration(info.name, call[p].script_id,
                                         info.whitelist, info.is_public), 0)
             /\ Entries(fs, FileAt(d, Pkg)) = {ModuleFile(n) : n \in DOMAIN info.modules}
             /\ \A n \in DOMAIN info.modules :
                  fs[FileAt(FileAt(d, Pkg), ModuleFile(n))] = File(info.modules[n])

LocalReads == {"read", "read_dir", "next_entry"}

\* C10: a push_project calls set_editor at most once, with the script_id of
\* fumosync.json, and only after reading the configuration, README.md,
\* init.server.luau, the pkg directory and every selected module file
\* succeeded; when one of them fails it makes no remote call.
PushSubmitsOnce ==
  \A q \in Procs :
    call[q].op = "push"
      => /\ Len(submitted[q]) <= 1
         /\ submitted[q] # <<>>
              => /\ submitted[q][1].script_id
                      = ConfigurationIn(fsAtCall[q], call[q].cwd).val.script_id
                 /\ \A i \in 1..Len(log[q]) : log[q][i].ev \in LocalReads => log[q][i].ok
                 /\ Did(q, "read", FumosyncJson, TRUE)
                 /\ Did(q, "read", ReadmeMd, TRUE)
                 /\ Did(q, "read", InitServerLuau, TRUE)
                 /\ Did(q, "read_dir", Pkg, TRUE)
                 /\ \A i \in 1..Len(log[q]) :
                      ( /\ log[q][i].ev = "file_type" /\ log[q][i].ok
                        /\ Selected(fsAtCall[q][FileAt(call[q].cwd \o <<Pkg>>,
                                                       EntryOf(log[q][i]))].kind,
                                    EntryOf(log[q][i])) )
                        => Did(q, "read", log[q][i].path, TRUE)
         /\ (Done(q) /\ result[q].status = "err"
             /\ result[q].at \notin {"push_secrets", "set_editor"})
              => submitted[q] = <<>> /\ ~UsedNetwork(q)

PushSubmitsOnceWitness ==
  \E p, q \in Procs :
    /\ call[q].op = "push" /\ Len(submitted[q]) = 1 /\ ModulesRead(q) # <<>>
    /\ call[p].op = "pull" /\ submitted[q][1].script_id = call[p].script_id
    /\ call[p].script_id # Sentinel

\* the node of pkg/ in the directory q was run in, and what it held
PkgNode(q) == FileAt(call[q].cwd, Pkg)
PkgEntries(q) == Entries(fsAtCall[q], PkgNode(q))
\* entry is a regular file named <stem>.luau, the stem not empty
IsLuauFile(f, dir, entry) ==
  /\ IsFile(f, FileAt(dir, entry))
  /\ Len(entry) >= 3
  /\ entry[Len(entry) - 1] = DOT
  /\ entry[Len(entry)] = "luau"
Stripped(entry) == SubSeq(entry, 1, Len(entry) - 2)
\* q has enumerated pkg/ to its end
Discovered(q) == call[q].op = "push" /\ loc[q].actions # <<>>
EmittedNames(q) == {loc[q].modules[k].name : k \in 1..Len(loc[q].modules)}

\* C11 as stated: module discovery emits an entry of pkg/ if and only if it
\* is a regular file with extension "luau", under the name without extension.
ExtensionFilterUnqualified ==
  \A q \in Procs :
    Discovered(q)
      => EmittedNames(q)
           = {Stripped(e) : e \in {x \in PkgEntries(q) : IsLuauFile(fsAtCall[q], PkgNode(q), x)}}

\* C11 amended: module discovery emits an entry of pkg/ if and only if its
\* file-kind lookup succeeded and it is a regular file whose extension is
\* exactly "luau"; every other entry is passed over without being read, and an
\* emitted module is named as the file without ".luau".
ExtensionFilter ==
  \A q \in Procs :
    call[q].op = "push"
      => /\ \A i \in 1..Len(log[q]) :
              (log[q][i].ev = "file_type" /\ i < Len(log[q]))
                => IF log[q][i].ok
                      /\ IsLuauFile(fsAtCall[q], PkgNode(q), EntryOf(log[q][i]))
                   THEN log[q][i + 1].ev = "read" /\ log[q][i + 1].path = log[q][i].path
                   ELSE log[q][i + 1].ev = "next_entry"
         /\ Len(loc[q].modules) = Len(ModulesRead(q))
         /\ \A k \in 1..Len(loc[q].modules) :
              loc[q].modules[k].name = Stripped(EntryOf(ModulesRead(q)[k]))
         /\ Discovered(q)
              => EmittedNames(q)
                   = {Stripped(e) : e \in {x \in PkgEntries(q) :
                        /\ IsLuauFile(fsAtCall[q], PkgNode(q), x)
                        /\ Did(q, "file_type", Join(Pkg, x), TRUE)}}

ExtensionFilterWitness ==
  \E q \in Procs :
    /\ Discovered(q)
    /\ PkgEntries(q) = {<<"a", DOT, "luau">>, <<DOT, DOT, "luau">>,
                        <<"notes", DOT, "txt">>, <<"sub">>}
    /\ EmittedNames(q) = {<<"a">>, <<DOT>>}

\* event i of q's log failed
FailedCall(q, i, ev) == log[q][i].ev = ev /\ ~log[q][i].ok
\* q aborted with error e at the call that is the last of its log
AbortedWith(q, i, e, at) ==
  /\ i = Len(log[q])
  /\ Done(q)
  /\ result[q] = Err(e, at)
  /\ submitted[q] = <<>>

\* C12: a failed file-kind lookup for an entry of pkg/ makes push_project skip
\* that entry and go on with the enumeration, never fail; a failed read_dir of
\* pkg/, a failed next_entry and a failed read of a selected module file each
\* abort the push, which then submits nothing.
KindLookupNonFatal ==
  \A q \in Procs :
    call[q].op = "push"
      => /\ result[q].status = "err" => result[q].at # "file_type"
         /\ \A i \in 1..Len(log[q]) :
              /\ FailedCall(q, i, "file_type")
                   => /\ IF i = Len(log[q])
                         THEN pc[q] = "next_entry" /\ result[q] = Running
                         ELSE log[q][i + 1].ev = "next_entry"
                      /\ ~Did(q, "read", log[q][i].path, TRUE)
                      /\ ~Did(q, "read", log[q][i].path, FALSE)
                      /\ \A k \in 1..Len(loc[q].modules) :
                           ModuleFile(loc[q].modules[k].name) # EntryOf(log[q][i])
              /\ FailedCall(q, i, "read_dir")
                   => AbortedWith(q, i, Error("ReadDirectory", Pkg), "read_dir")
              /\ FailedCall(q, i, "next_entry") => i = Len(log[q]) /\ FailedAt(q, "next_entry")
              /\ (FailedCall(q, i, "read") /\ i > 3)
                   => AbortedWith(q, i, Error("ReadFile", log[q][i].path), "read_module")

KindLookupNonFatalWitness ==
  \E q \in Procs :
    /\ call[q].op = "push" /\ result[q] = Ok /\ Len(submitted[q]) = 1
    /\ Did(q, "file_type", Join(Pkg, <<"a", DOT, "luau">>), FALSE)
    /\ Len(submitted[q][1].actions) = 6
    /\ submitted[q][1].actions[6].name = <<DOT>>

\* the call e did not let the operation go on (exists() fails the operation
\* when it answers yes)
Fails(e) == IF e.ev = "exists" THEN e.ok ELSE ~e.ok
\* the error of a failed file-system call
StepError(e) ==
  Error(IF e.ev = "exists" THEN "DirectoryAlreadyExists"
        ELSE IF e.ev = "create_dir" THEN "CreateDirectory" ELSE "CreateFile", e.path)
FsCalls == {"exists", "create_dir", "write"}
\* what the write that is call i of p's log was given to write
ContentWritten(p, i) ==
  LET path == log[p][i].path
      d == call[p].directory
      info == loc[p].script_info
  IN  IF path = Join(Join(d, VsCode), SettingsJson) THEN SettingsText
      ELSE IF path = Join(d, TypesDLuau) THEN TypesText
      ELSE IF path = Join(d, InitServerLuau)
           THEN (IF i <= 10 THEN MainStub ELSE info.main)
      ELSE IF path = Join(d, ReadmeMd)
           THEN (IF i <= 10 THEN ReadmeStub ELSE info.description)
      ELSE IF path = Join(d, FumosyncJson)
           THEN (IF i <= 10 THEN ToStringPretty(InitConfiguration(d))
                 ELSE ToStringPretty(PullConfiguration(call[p].script_id, info)))
      ELSE LET n == CHOOSE n \in DOMAIN info.modules : ModulePath(d, n) = path
           IN  info.modules[n]
\* no later call of p was made on the path of call i
LastOn(p, i) == \A j \in (i + 1)..Len(log[p]) : log[p][j].path # log[p][i].path
InitOrPull(p) == call[p].op \in {"init", "pull"}

\* C13: when a step of init or pull_project fails, the operation returns that
\* step's error at once: the failed call is the last one it makes, every call
\* before it succeeded, the error names the failed call alone, and what the
\* earlier steps created is still on disk (nothing is removed or rolled back).
NoRollbackNoContinuation ==
  \A p \in Procs :
    InitOrPull(p)
      => /\ result[p].status = "err" => Done(p)
         /\ \A i \in 1..Len(log[p]) :
              Fails(log[p][i])
                => /\ i = Len(log[p])
                   /\ Done(p) /\ result[p].status = "err"
                   /\ log[p][i].ev \in FsCalls
                        => result[p].error[1]
                             = (IF call[p].op = "pull" /\ result[p].at \in InitSteps
                                THEN ProjectDidntInitialize(StepError(log[p][i]))
                                ELSE StepError(log[p][i]))
                   /\ log[p][i].ev \notin FsCalls
                        => result[p].at = (IF log[p][i].ev = "get_editor"
                                           THEN "get_editor" ELSE "secrets")
         /\ (Done(p) /\ result[p].status = "err")
              => log[p] # <<>> /\ Fails(log[p][Len(log[p])])
         /\ Quiet(p)
              => /\ \A n \in DOMAIN fsAtCall[p] : n \in DOMAIN fs /\ fs[n].kind = fsAtCall[p][n].kind
                 /\ \A i \in 1..Len(log[p]) :
                      LET e == log[p][i]
                      IN  /\ (e.ev = "create_dir" /\ e.ok)
                               => IsDir(fs, Resolve(fs, call[p].cwd, e.path)[1])
                          /\ (e.ev = "write" /\ e.ok)
                               => /\ CanRead(fs, call[p].cwd, e.path)
                                  /\ LastOn(p, i)
                                       => ContentOf(fs, call[p].cwd, e.path)
                                            = ContentWritten(p, i)

NoRollbackNoContinuationWitness ==
  \E p \in Procs :
    /\ call[p].op = "pull" /\ FailedAt(p, "write_main") /\ Quiet(p)
    /\ Len(log[p]) = 13
    /\ ContentOf(fs, call[p].cwd, Join(call[p].directory, ReadmeMd))
         = loc[p].script_info.description
    /\ IsFile(fs, FileAt(ProjectNode(p), TypesDLuau))

\* C14: push_project, whether it succeeds or fails, creates, overwrites and
\* deletes no local file or directory: while and after it runs, as long as
\* nothing else ran, the file system is what it was when it started.
PushFrame ==
  \A q \in Procs :
    call[q].op = "push" /\ Quiet(q) => fs = fsAtCall[q]

PushFrameWitness ==
  \E q \in Procs :
    /\ call[q].op = "push" /\ result[q] = Ok /\ Quiet(q)
    /\ Len(submitted[q]) = 1
    /\ Len(submitted[q][1].actions) > 5
    /\ IsFile(fs, FileAt(call[q].cwd, FumosyncJson))
    /\ IsFile(fs, FileAt(call[q].cwd, ReadmeMd))

\* p is a pull_project that failed after its init step
FailedAfterInit(p) ==
  /\ call[p].op = "pull" /\ Done(p) /\ result[p].status = "err"
  /\ result[p].at \notin InitSteps \cup {"secrets"}
\* the path q was given named a node of the file system when q started
ThereAtCall(q) ==
  LET r == Resolve(fsAtCall[q], Home, call[q].directory)
  IN  r # None /\ r[1] \in DOMAIN fsAtCall[q]
\* q is a later init or pull_project on the path p was given, started while
\* the directory was there, and past its existence check
LaterOnSamePath(p, q) ==
  /\ InitOrPull(q)
  /\ call[q].seq > call[p].seq
  /\ call[q].directory = call[p].directory
  /\ ThereAtCall(q)
  /\ pc[q] \notin {"secrets", "exists"}
AlreadyExists(q) ==
  Err(InitFailure(call[q].op, Error("DirectoryAlreadyExists", call[q].directory)), "exists")

\* C15 as stated: after a pull_project that failed after its init step, every
\* later init or pull_project on the same path, the directory still being
\* there, fails with DirectoryAlreadyExists (wrapped for pull_project).
LaterRunsAlreadyExist ==
  \A p, q \in Procs :
    FailedAfterInit(p) /\ LaterOnSamePath(p, q)
      => Done(q) /\ result[q] = AlreadyExists(q)

\* C15 amended: a pull_project that failed after its init step leaves the
\* directory in place, and every later init or pull_project on the same path,
\* the directory still being there, fails with DirectoryAlreadyExists (wrapped
\* for pull_project), or for pull_project with the error of acquiring the
\* session secrets when that fails first; it never calls get_editor and
\* creates and writes nothing.
LaterRunsFailEarly ==
  \A p \in Procs :
    FailedAfterInit(p)
      => /\ Quiet(p) => IsDir(fs, ProjectNode(p))
         /\ \A q \in Procs :
              LaterOnSamePath(p, q)
                => /\ Done(q)
                   /\ \/ result[q] = AlreadyExists(q)
                      \/ /\ call[q].op = "pull"
                         /\ result[q].status = "err" /\ result[q].at = "secrets"
                   /\ \A i \in 1..Len(log[q]) :
                        log[q][i].ev \in {"get_session_secrets", "exists"}
                   /\ Quiet(q) => fs = fsAtCall[q]

LaterRunsFailEarlyWitness ==
  \E p, q \in Procs :
    /\ FailedAfterInit(p) /\ result[p].at = "get_editor"
    /\ LaterOnSamePath(p, q) /\ call[q].op = "pull"
    /\ result[q] = AlreadyExists(q)

\* p and q are init or pull_project invocations on one path that was not there
\* when either started, and the user did nothing meanwhile
Racing(p, q) ==
  /\ p # q
  /\ InitOrPull(p) /\ InitOrPull(q)
  /\ call[p].directory = call[q].directory
  /\ ~ThereAtCall(p) /\ ~ThereAtCall(q)
  /\ edits = 0
\* q created a directory or wrote a file
Effected(q) ==
  \E i \in 1..Len(log[q]) :
    \/ log[q][i].ev = "create_dir" /\ log[q][i].ok
    \/ log[q][i].ev = "write"

\* C16: of two init or pull_project invocations that overlap on one path that
\* did not exist, at most one creates the root directory; the other fails at
\* its existence check or at creating the root, having created no directory
\* and written no file.
OneWinner ==
  \A p, q \in Procs :
    Racing(p, q)
      => /\ ~(Created(p) /\ Created(q))
         /\ (Created(p) /\ pc[q] \notin {"secrets", "exists", "create_root"})
              => /\ Done(q) /\ result[q].status = "err"
                 /\ result[q].at \in {"secrets", "exists", "create_root"}
                 /\ ~Effected(q)

OneWinnerWitness ==
  \E p, q \in Procs :
    /\ Racing(p, q)
    /\ Did(p, "exists", call[p].directory, FALSE)
    /\ Did(q, "exists", call[q].directory, FALSE)
    /\ Created(p) /\ result[p] = Ok
    /\ FailedAt(q, "create_root")

\* the directories that hold a fumosync.json
Configured(f) == {d \in DOMAIN f : IsDir(f, d) /\ IsFile(f, FileAt(d, FumosyncJson))}

\* C17: in every state init and pull_project runs lead to, runs that failed
\* part-way included, a directory that holds fumosync.json also holds pkg/,
\* .vscode/settings.json, init.server.luau, README.md and types.d.luau.
ConfigurationWrittenLast ==
  \A d \in Configured(fs) :
    /\ IsDir(fs, FileAt(d, Pkg))
    /\ IsFile(fs, FileAt(FileAt(d, VsCode), SettingsJson))
    /\ IsFile(fs, FileAt(d, InitServerLuau))
    /\ IsFile(fs, FileAt(d, ReadmeMd))
    /\ IsFile(fs, FileAt(d, TypesDLuau))

ConfigurationWrittenLastWitness ==
  \E p \in Procs :
    /\ call[p].op = "init" /\ FailedAt(p, "write_init_configuration") /\ Quiet(p)
    /\ ProjectNode(p) \in Configured(fs)
    /\ ~ConfigurationIn(fs, ProjectNode(p)).ok

\* q is a push_project run in the directory the pull_project p was given and
\* created, a directory that was not there when p started and that the user
\* left alone, and the configuration q read carries the script id p was given,
\* which is not the sentinel
ReadPulledId(p, q) ==
  /\ call[p].op = "pull" /\ call[q].op = "push"
  /\ ~ThereAtCall(p) /\ Created(p)
  /\ edits = 0
  /\ call[q].cwd = ProjectNode(p)
  /\ call[p].script_id # Sentinel
  /\ Did(q, "read", FumosyncJson, TRUE)
  /\ loc[q].configuration.script_id = call[p].script_id

\* C18: when a push_project overlaps a pull_project into a fresh directory
\* and reads a configuration carrying the pulled script id, the description
\* and the main source it reads, and the Description and MainSource it
\* submits, are the fetched ones and never the stubs init wrote.
PushSeesPulled ==
  \A p, q \in Procs :
    ReadPulledId(p, q)
      => LET info == loc[p].script_info
         IN  /\ Did(q, "read", ReadmeMd, TRUE) => loc[q].description = info.description
             /\ Did(q, "read", InitServerLuau, TRUE) => loc[q].main_source = info.main
             /\ \A k \in 1..Len(submitted[q]) :
                  /\ submitted[q][k].actions[4] = Description(info.description)
                  /\ submitted[q][k].actions[5] = MainSource(info.main)
                  /\ submitted[q][k].actions[4] # Description(ReadmeStub)
                  /\ submitted[q][k].actions[5] # MainSource(MainStub)

PushSeesPulledWitness ==
  \E p, q \in Procs :
    /\ ReadPulledId(p, q)
    /\ pc[p] = "write_module"
    /\ result[q] = Ok /\ Len(submitted[q]) = 1

\* C19: a pull_project whose acquisition of the session secrets fails returns
\* that error, not wrapped, having made no other call: the directory is not
\* created, init is not run and the file system is unchanged.
SecretsBeforeInit ==
  \A p \in Procs :
    call[p].op = "pull" /\ Did(p, "get_session_secrets", <<>>, FALSE)
      => /\ Done(p)
         /\ result[p].status = "err" /\ result[p].at = "secrets"
         /\ result[p].error[1].kind # "ProjectDidntInitialize"
         /\ result[p].error[1].inner = <<>>
         /\ log[p] = <<Event("get_session_secrets", <<>>, FALSE)>>
         /\ Quiet(p) => fs = fsAtCall[p]

SecretsBeforeInitWitness ==
  \E p \in Procs :
    /\ call[p].op = "pull" /\ FailedAt(p, "secrets") /\ Quiet(p)
    /\ call[p].directory = <<"demo">>
    /\ ~ThereAtCall(p)
    /\ ~IsDir(fs, ProjectNode(p))

=============================================================================
